---- MODULE Spec2Model ----
(***************************************************************************)
(* A model of the time-signature visualiser: the timeline builder          *)
(* (_get_segments), the composition driver (create_signature_video) and    *)
(* the per-frame renderers (make_polygon_filler, _bar_clip, _preview_clip) *)
(* of src/polygonal_metre.py, together with the older variant              *)
(* src/signature_visualizer.py.  Times are Python floats in the source;    *)
(* here they are exact rationals <<numerator, denominator>>.               *)
(***************************************************************************)
EXTENDS Integers, Sequences, FiniteSets, TLC

VARIABLES
    variant,         \* "pm": polygonal_metre.py, "sv": signature_visualizer.py
    data,            \* data['map'], the descriptor list read from the json file
    total_duration,  \* audio.duration
    pc,              \* position of create_signature_video
    time_segments,   \* the timeline
    final_time,      \* second result of _get_segments
    i,               \* loop index of the driver's for loop (1-based)
    clips,           \* the layers instantiated so far
    video_duration,  \* the duration given to the composite video
    frame            \* the frame most recently produced by a layer's make_frame

vars == <<variant, data, total_duration, pc, time_segments, final_time, i,
          clips, video_duration, frame>>

----------------------------------------------------------------------------
(* Bounds of the model *)

MaxSegs == 2     \* longest descriptor list
MaxBeats == 4    \* largest beats-per-bar of a descriptor
MaxBars == 2     \* largest bar count of a well-formed descriptor
TSub == 1        \* frames are sampled every 1/TSub of a beat

(* Program constants *)

fade_beats == 3
ACCENT_COLOR == <<0, 100, 255>>
WHITE == <<255, 255, 255>>
BLACK == <<0, 0, 0>>

----------------------------------------------------------------------------
(* Exact arithmetic standing for the float arithmetic of the source *)

Abs(n) == IF n < 0 THEN -n ELSE n

RECURSIVE GCD(_, _)
GCD(a, b) == IF b = 0 THEN a ELSE GCD(b, a % b)

Norm(n, d) ==
    LET s == IF d < 0 THEN -1 ELSE 1
        g == GCD(Abs(n), Abs(d))
    IN  <<(s * n) \div g, (s * d) \div g>>

R(n) == <<n, 1>>
RAdd(a, b) == Norm(a[1] * b[2] + b[1] * a[2], a[2] * b[2])
RSub(a, b) == Norm(a[1] * b[2] - b[1] * a[2], a[2] * b[2])
RMul(a, b) == Norm(a[1] * b[1], a[2] * b[2])
RDiv(a, b) == Norm(a[1] * b[2], a[2] * b[1])
RLt(a, b) == a[1] * b[2] < b[1] * a[2]
RLe(a, b) == a[1] * b[2] <= b[1] * a[2]
RMin(a, b) == IF RLt(b, a) THEN b ELSE a
RFloor(a) == a[1] \div a[2]
\* Python's float % for a positive divisor: a - b*floor(a/b)
RMod(a, b) == RSub(a, RMul(b, R(RFloor(RDiv(a, b)))))
\* Python's int(): truncation toward zero
Trunc(a) == IF a[1] >= 0 THEN a[1] \div a[2] ELSE -((-a[1]) \div a[2])

----------------------------------------------------------------------------
(* The input description *)

Sigs == {<<b, 4>> : b \in 1..MaxBeats}
GoodDescriptors ==
    [sig : Sigs, bpm : {120}, bars : 1..MaxBars]
        \cup {[sig |-> <<3, 4>>, bpm |-> 90, bars |-> 1]}
BadDescriptors ==
    { [sig |-> <<MaxBeats, 4>>, bpm |-> 0, bars |-> 1],
      [sig |-> <<3, 4>>, bpm |-> -60, bars |-> 1],
      [sig |-> <<MaxBeats, 4>>, bpm |-> 120, bars |-> 0] }
Descriptors == GoodDescriptors \cup BadDescriptors
Maps == UNION {[1..n -> Descriptors] : n \in 0..MaxSegs}
AudioDurations == {R(1), R(60)}

----------------------------------------------------------------------------
(* Segment records.  'next' is None, the {'sig','bpm'} dictionary that     *)
(* _get_segments stores in the previous segment, or a reference to a       *)
(* segment object of the list (Python dictionaries are shared by           *)
(* reference).  A key a variant does not set reads as None / False.        *)

None == [kind |-> "None", sig |-> <<0, 0>>, bpm |-> 0, idx |-> 0]
Stub(sig, bpm) == [kind |-> "stub", sig |-> sig, bpm |-> bpm, idx |-> 0]
Ref(j) == [kind |-> "ref", sig |-> <<0, 0>>, bpm |-> 0, idx |-> j]

bar_duration_of(segment) == RDiv(R(segment.sig[1] * 60), R(segment.bpm))
segment_duration_of(segment) == RMul(R(segment.bars), bar_duration_of(segment))

\* faulty variant of segment_record: 'end' is the duration, not start + duration
segment_record_end_only(current_time, segment_duration, sig, bpm) ==
    [start |-> current_time, end |-> segment_duration, dur |-> segment_duration,
     sig |-> sig, bpm |-> bpm, next |-> None, last |-> FALSE]

\* the dictionary appended for an authored segment
segment_record(current_time, segment_duration, sig, bpm) ==
    [start |-> current_time, end |-> RAdd(current_time, segment_duration),
     dur |-> segment_duration, sig |-> sig, bpm |-> bpm, next |-> None,
     last |-> FALSE]

\* faulty variant of dummy_record: 'dur' holds the end time
dummy_record_dur_is_end(current_time, bar_duration, sig, bpm) ==
    [start |-> current_time, end |-> RAdd(current_time, bar_duration),
     dur |-> RAdd(current_time, bar_duration), sig |-> sig, bpm |-> bpm,
     next |-> None, last |-> FALSE]

\* the dummy final bar
dummy_record(current_time, bar_duration, sig, bpm) ==
    [start |-> current_time, end |-> RAdd(current_time, bar_duration),
     dur |-> bar_duration, sig |-> sig, bpm |-> bpm, next |-> None,
     last |-> FALSE]

\* _get_segments raises: ZeroDivisionError on a zero tempo, UnboundLocalError
\* (bar_duration / sig never bound) on an empty map
get_segments_raises(map) == map = <<>> \/ \E k \in 1..Len(map) : map[k].bpm = 0

\* the for loop of polygonal_metre._get_segments, from descriptor k on
RECURSIVE get_segments_loop(_, _, _, _)
get_segments_loop(map, k, current_time, segments) ==
    IF k > Len(map)
    THEN [segments |-> segments, current_time |-> current_time]
    ELSE LET segment == map[k]
             segment_duration == segment_duration_of(segment)
             linked == IF segments # <<>>
                       THEN [segments EXCEPT ![k - 1].next = Stub(segment.sig, segment.bpm)]
                       ELSE segments
         IN  get_segments_loop(map, k + 1, RAdd(current_time, segment_duration),
                 Append(linked, segment_record(current_time, segment_duration,
                                               segment.sig, segment.bpm)))

\* polygonal_metre._get_segments (map non-empty, no zero tempo)
get_segments(map) ==
    LET r == get_segments_loop(map, 1, R(0), <<>>)
        segment == map[Len(map)]     \* the loop variables keep their last values
        dummy == dummy_record(r.current_time, bar_duration_of(segment),
                              segment.sig, segment.bpm)
        n == Len(r.segments)
    IN  [segments |-> Append([r.segments EXCEPT ![n].next = Ref(n + 1)], dummy),
         final_time |-> RAdd(r.current_time, segment_duration_of(segment))]

\* the for loop of signature_visualizer._get_segments (a generator)
RECURSIVE sv_get_segments_loop(_, _, _, _)
sv_get_segments_loop(map, k, current_time, segments) ==
    IF k > Len(map)
    THEN [segments |-> segments, current_time |-> current_time]
    ELSE LET segment == map[k]
             beat_duration == RDiv(R(60), R(segment.bpm))
             segment_duration == RMul(R(segment.bars * segment.sig[1]), beat_duration)
         IN  sv_get_segments_loop(map, k + 1, RAdd(current_time, segment_duration),
                 Append(segments,
                        [start |-> current_time,
                         end |-> RAdd(current_time, segment_duration),
                         dur |-> segment_duration, sig |-> segment.sig,
                         bpm |-> segment.bpm, next |-> None, last |-> FALSE]))

\* signature_visualizer._get_segments, unpacked by *time_segments, current_time
sv_get_segments(map) ==
    LET r == sv_get_segments_loop(map, 1, R(0), <<>>)
        segment == map[Len(map)]
        bar == RDiv(R(segment.sig[1] * 60), R(segment.bpm))
        segment_duration == RMul(R(segment.bars * segment.sig[1]),
                                 RDiv(R(60), R(segment.bpm)))
    IN  [segments |-> Append(r.segments,
                        [start |-> r.current_time,
                         end |-> RAdd(r.current_time, bar), dur |-> bar,
                         sig |-> segment.sig, bpm |-> segment.bpm,
                         next |-> None, last |-> TRUE]),
         final_time |-> RAdd(r.current_time, segment_duration)]

----------------------------------------------------------------------------
(* The layers of the composition driver.  A layer records what the clip    *)
(* object is built from: its kind, the segment it belongs to (index in the *)
(* timeline), its start and duration, and the parameters its make_frame    *)
(* closure captures.  The clip classes themselves (moviepy) are external;  *)
(* constructing a layer is modelled as recording these parameters.         *)

NoClip == [layer |-> "None", seg |-> 0, start |-> R(0), dur |-> R(0),
           n_beats |-> 0, bpm |-> 0, last |-> FALSE]

\* segment['next']['sig'] : the object 'next' denotes is a segment of the
\* list or the {'sig','bpm'} dictionary
next_sig(segs, segment) ==
    IF segment.next.kind = "ref" THEN segs[segment.next.idx].sig
    ELSE segment.next.sig

\* segment.get('next').get('next')
next_of_next(segs, segment) ==
    IF segment.next.kind = "ref" THEN segs[segment.next.idx].next ELSE None

\* the driver's "encode next segment in segment"
\* faulty variant of relink: the link is left as _get_segments set it
relink_skipped(segs, k) == segs

relink(segs, k) ==
    [segs EXCEPT ![k].next = IF k + 1 <= Len(segs) THEN Ref(k + 1) ELSE None]

\* "No preview if last or second to last segment"
no_preview(segs, segment) ==
    segment.next = None \/ next_of_next(segs, segment) = None

polygon_clip(segs, k) ==
    [layer |-> "polygon", seg |-> k, start |-> segs[k].start, dur |-> segs[k].dur,
     n_beats |-> segs[k].sig[1], bpm |-> segs[k].bpm,
     last |-> (segs[k].next = None)]

sig_clip(segs, k) ==
    [layer |-> "sig", seg |-> k, start |-> segs[k].start, dur |-> segs[k].dur,
     n_beats |-> segs[k].sig[1], bpm |-> segs[k].bpm, last |-> FALSE]

bpm_clip(segs, k) ==
    [layer |-> "bpm", seg |-> k, start |-> segs[k].start, dur |-> segs[k].dur,
     n_beats |-> segs[k].sig[1], bpm |-> segs[k].bpm, last |-> FALSE]

next_clip(segs, k) ==
    IF no_preview(segs, segs[k]) THEN NoClip
    ELSE [layer |-> "next", seg |-> k, start |-> segs[k].start, dur |-> segs[k].dur,
          n_beats |-> next_sig(segs, segs[k])[1], bpm |-> segs[k].bpm,
          last |-> FALSE]

bar_clip(segs, k) ==
    IF no_preview(segs, segs[k]) THEN NoClip
    ELSE [layer |-> "bar", seg |-> k, start |-> segs[k].start, dur |-> segs[k].dur,
          n_beats |-> segs[k].sig[1], bpm |-> segs[k].bpm, last |-> FALSE]

\* faulty variant of preview_clip: the window is sized by the successor's beat count
preview_clip_next_beats(segs, k) ==
    IF no_preview(segs, segs[k]) THEN NoClip
    ELSE LET beats_per_bar == next_sig(segs, segs[k])[1]
             preview_end == segs[k].end
             preview_start == RSub(preview_end,
                                   RDiv(R(beats_per_bar * 60), R(segs[k].bpm)))
         IN  [layer |-> "preview", seg |-> k, start |-> preview_start,
              dur |-> RSub(preview_end, preview_start),
              n_beats |-> next_sig(segs, segs[k])[1], bpm |-> segs[k].bpm,
              last |-> FALSE]

preview_clip(segs, k) ==
    IF no_preview(segs, segs[k]) THEN NoClip
    ELSE LET beats_per_bar == segs[k].sig[1]
             preview_end == segs[k].end
             preview_start == RSub(preview_end,
                                   RDiv(R(beats_per_bar * 60), R(segs[k].bpm)))
         IN  [layer |-> "preview", seg |-> k, start |-> preview_start,
              dur |-> RSub(preview_end, preview_start),
              n_beats |-> next_sig(segs, segs[k])[1], bpm |-> segs[k].bpm,
              last |-> FALSE]

(* signature_visualizer.py: the terminal segment carries 'last'; a layer   *)
(* that is not wanted is a blank clip of duration 0; no progress indicator *)

BlankClip(k) == [layer |-> "blank", seg |-> k, start |-> R(0), dur |-> R(0),
                 n_beats |-> 0, bpm |-> 0, last |-> FALSE]

sv_no_preview(segs, segment) ==
    segment.next = None \/ segs[segment.next.idx].last = TRUE

sv_polygon_clip(segs, k) ==
    [layer |-> "polygon", seg |-> k, start |-> segs[k].start, dur |-> segs[k].dur,
     n_beats |-> segs[k].sig[1], bpm |-> segs[k].bpm, last |-> segs[k].last]

sv_next_clip(segs, k) ==
    IF sv_no_preview(segs, segs[k]) THEN BlankClip(k)
    ELSE [layer |-> "next", seg |-> k, start |-> segs[k].start, dur |-> segs[k].dur,
          n_beats |-> next_sig(segs, segs[k])[1], bpm |-> segs[k].bpm,
          last |-> FALSE]

sv_preview_clip(segs, k) ==
    IF sv_no_preview(segs, segs[k]) THEN BlankClip(k)
    ELSE LET beats_per_bar == segs[k].sig[1]
             preview_start == RSub(segs[segs[k].next.idx].start,
                                   RDiv(R(beats_per_bar * 60), R(segs[k].bpm)))
             preview_end == segs[segs[k].next.idx].start
         IN  [layer |-> "preview", seg |-> k, start |-> preview_start,
              dur |-> RSub(preview_end, preview_start),
              n_beats |-> next_sig(segs, segs[k])[1], bpm |-> segs[k].bpm,
              last |-> FALSE]

----------------------------------------------------------------------------
(* The frame functions.  A polygon frame is the state of each slice:       *)
(* "skipped" (the continue of the not-yet-started test), "unfilled" (older *)
(* than the fade window) or "drawn" with its fade fraction and colour.     *)

\* faulty variant of not_yet_started: tests the wrapped beat_phase
not_yet_started_by_phase(beat_pos, beat_phase, idx, last) ==
    RLt(RSub(beat_phase, R(idx)), R(0)) /\ ~last

not_yet_started(beat_pos, beat_phase, idx, last) ==
    RLt(RSub(beat_pos, R(idx)), R(0)) /\ ~last

\* faulty variant of wrap_beats_ago: a negative beats_ago is not wrapped
wrap_beats_ago_never(beats_ago, beats_per_bar) == beats_ago

wrap_beats_ago(beats_ago, beats_per_bar) ==
    IF RLt(beats_ago, R(0)) THEN RAdd(beats_ago, R(beats_per_bar)) ELSE beats_ago

\* faulty variant of slice_filled: the terminal flag does not force the fill
slice_filled_fade_only(beats_ago, last) == RLt(beats_ago, R(fade_beats))

slice_filled(beats_ago, last) == RLt(beats_ago, R(fade_beats)) \/ last

slice_color(idx, fade, last) ==
    LET brightness == Trunc(RMul(R(255), fade))
        gray == <<brightness, brightness, brightness>>
        tinted == IF idx = 0
                  THEN <<Trunc(RMul(R(ACCENT_COLOR[1]), fade)),
                         Trunc(RMul(R(ACCENT_COLOR[2]), fade)),
                         Trunc(RMul(R(ACCENT_COLOR[3]), fade))>>
                  ELSE gray
    IN  IF last THEN BLACK ELSE tinted

NoSlice(state) == [state |-> state, fade |-> R(0), color |-> BLACK]

\* one iteration of "for i in range(beats_per_bar)"
polygon_slice(beats_per_bar, beat_pos, beat_phase, idx, last) ==
    IF not_yet_started(beat_pos, beat_phase, idx, last) THEN NoSlice("skipped")
    ELSE LET beats_ago == wrap_beats_ago(RSub(beat_phase, R(idx)), beats_per_bar)
             fade == RSub(R(1), RDiv(beats_ago, R(fade_beats)))
         IN  IF slice_filled(beats_ago, last)
             THEN [state |-> "drawn", fade |-> fade,
                   color |-> slice_color(idx, fade, last)]
             ELSE NoSlice("unfilled")

\* make_frame(t) of make_polygon_filler(beats_per_bar, bpm, bar_duration, last)
make_polygon_frame(beats_per_bar, bpm, bar_duration, last, t) ==
    LET beat_duration == RDiv(R(60), R(bpm))
        beat_pos == RDiv(RMod(t, bar_duration), beat_duration)
        \* float % by the integer beats_per_bar
        beat_phase == RMod(beat_pos, R(beats_per_bar))
    IN  [idx \in 0..(beats_per_bar - 1) |->
            polygon_slice(beats_per_bar, beat_pos, beat_phase, idx, last)]

\* the colour of the rectangle in make_frame(t) of _bar_clip
\* faulty variant of bar_color: the threshold is one beat before the end
bar_color_last_beat(segment, t) ==
    IF RLt(RSub(segment.dur, RDiv(R(60), R(segment.bpm))), t)
    THEN ACCENT_COLOR ELSE WHITE

bar_color(segment, t) ==
    IF RLt(RSub(segment.dur, RDiv(R(segment.sig[1] * 60), R(segment.bpm))), t)
    THEN ACCENT_COLOR ELSE WHITE

NoFrame == [layer |-> "None", seg |-> 0, t |-> R(0), slices |-> <<>>,
            color |-> BLACK, n |-> 0, x |-> R(0)]

\* the frame of layer c at local time t.  For the preview, n is the number
\* of vertices and x = t/(preview_end - preview_start), the argument of the
\* opacity easing.
layer_frame(segs, c, t) ==
    IF c.layer = "polygon"
    THEN [NoFrame EXCEPT !.layer = "polygon", !.seg = c.seg, !.t = t,
            !.slices = make_polygon_frame(c.n_beats, c.bpm, c.dur, c.last, t)]
    ELSE IF c.layer = "bar"
    THEN [NoFrame EXCEPT !.layer = "bar", !.seg = c.seg, !.t = t,
            !.color = bar_color(segs[c.seg], t)]
    ELSE [NoFrame EXCEPT !.layer = "preview", !.seg = c.seg, !.t = t,
            !.n = next_sig(segs, segs[c.seg])[1], !.x = RDiv(t, c.dur)]

----------------------------------------------------------------------------
(* create_signature_video *)

Init ==
    /\ variant \in {"pm", "sv"}
    /\ data \in Maps
    /\ total_duration = R(0)
    /\ pc = "load"
    /\ time_segments = <<>>
    /\ final_time = R(0)
    /\ i = 0
    /\ clips = <<>>
    /\ video_duration = R(0)
    /\ frame = NoFrame

\* audio = AudioFileClip(data['wav']); total_duration = audio.duration
LoadAudio ==
    /\ pc = "load"
    /\ total_duration' \in AudioDurations
    /\ pc' = "segments"
    /\ UNCHANGED <<variant, data, time_segments, final_time, i, clips,
                   video_duration, frame>>

\* time_segments, final_time = _get_segments(data)
GetSegments ==
    /\ pc = "segments"
    /\ ~get_segments_raises(data)
    /\ LET r == IF variant = "pm" THEN get_segments(data) ELSE sv_get_segments(data)
       IN  /\ time_segments' = r.segments
           /\ final_time' = r.final_time
    /\ i' = 1
    /\ pc' = "loop"
    /\ UNCHANGED <<variant, data, total_duration, clips, video_duration, frame>>

\* _get_segments raises; the exception ends create_signature_video
GetSegmentsRaises ==
    /\ pc = "segments"
    /\ get_segments_raises(data)
    /\ pc' = "error"
    /\ UNCHANGED <<variant, data, total_duration, time_segments, final_time, i,
                   clips, video_duration, frame>>

\* one iteration of "for i,segment in enumerate(time_segments)"
segment_clips(segs, k) ==
    <<polygon_clip(segs, k), sig_clip(segs, k), bpm_clip(segs, k),
      next_clip(segs, k), bar_clip(segs, k), preview_clip(segs, k)>>

sv_segment_clips(segs, k) ==
    <<sv_polygon_clip(segs, k), sig_clip(segs, k), bpm_clip(segs, k),
      sv_next_clip(segs, k), sv_preview_clip(segs, k)>>

LoopStep ==
    /\ pc = "loop"
    /\ i <= Len(time_segments)
    /\ LET segs == relink(time_segments, i)
       IN  /\ time_segments' = segs
           /\ clips' = clips \o (IF variant = "pm" THEN segment_clips(segs, i)
                                 ELSE sv_segment_clips(segs, i))
    /\ i' = i + 1
    /\ pc' = IF i = Len(time_segments) THEN "composite" ELSE "loop"
    /\ UNCHANGED <<variant, data, total_duration, final_time, video_duration, frame>>

\* clips = [clip for clip in clips if clip != None]
drop_none(cs) == SelectSeq(cs, LAMBDA c : c # NoClip)

\* CompositeVideoClip(clips).with_duration(min(final_time, total_duration))
Composite ==
    /\ pc = "composite"
    /\ clips' = IF variant = "pm" THEN drop_none(clips) ELSE clips
    /\ video_duration' = RMin(final_time, total_duration)
    /\ pc' = "write"
    /\ UNCHANGED <<variant, data, total_duration, time_segments, final_time, i, frame>>

\* the local times at which a layer is sampled: multiples of 1/TSub beat
SampleTime(c, m) == RMul(R(m), RDiv(R(60), R(c.bpm * TSub)))

\* video.write_videofile: the compositor asks a layer that is showing at some
\* instant of the video for its frame at local time t = instant - start
WriteFrame ==
    /\ pc = "write"
    /\ \E k \in 1..Len(clips), m \in 0..(MaxBars * MaxBeats * TSub) :
         LET c == clips[k]
         IN  /\ c.layer \in {"polygon", "bar", "preview"}
             /\ c.bpm > 0
             /\ LET t == SampleTime(c, m)
                IN  /\ RLt(t, c.dur)
                    /\ RLe(R(0), RAdd(c.start, t))
                    /\ RLt(RAdd(c.start, t), video_duration)
                    /\ frame' = layer_frame(time_segments, c, t)
    /\ pc' = "frame"
    /\ UNCHANGED <<variant, data, total_duration, time_segments, final_time, i,
                   clips, video_duration>>

Next ==
    \/ LoadAudio
    \/ GetSegments
    \/ GetSegmentsRaises
    \/ LoopStep
    \/ Composite
    \/ WriteFrame

Spec == Init /\ [][Next]_vars

----------------------------------------------------------------------------
(* Properties *)

\* _get_segments has returned a timeline
TimelineBuilt == pc \in {"loop", "composite", "write", "frame"}

WellFormed(map) ==
    /\ map # <<>>
    /\ \A k \in 1..Len(map) :
          map[k].bpm > 0 /\ map[k].bars >= 1 /\ map[k].sig[1] >= 1

Malformed(map) ==
    \/ map = <<>>
    \/ \E k \in 1..Len(map) : map[k].bpm <= 0 \/ map[k].bars <= 0

\* segment k is the terminal one: no 'next' (polygonal_metre), 'last' set
\* (signature_visualizer)
IsTerminal(k) ==
    IF variant = "pm" THEN time_segments[k].next = None ELSE time_segments[k].last

HasLayer(k, kind) ==
    \E j \in 1..Len(clips) : clips[j].seg = k /\ clips[j].layer = kind

\* the layer the current frame was produced by
FrameClip ==
    CHOOSE c \in {clips[j] : j \in 1..Len(clips)} :
        c.layer = frame.layer /\ c.seg = frame.seg

\* one bar of the segment the current frame belongs to
FrameBar ==
    RDiv(R(time_segments[frame.seg].sig[1] * 60), R(time_segments[frame.seg].bpm))

FrameBeat == RDiv(R(60), R(time_segments[frame.seg].bpm))

Drawn == {idx \in DOMAIN frame.slices : frame.slices[idx].state = "drawn"}
Skipped == {idx \in DOMAIN frame.slices : frame.slices[idx].state = "skipped"}

\* C1: for a well-formed descriptor list the timeline starts at 0, every
\* segment has end = start + duration, an authored segment lasts
\* barCount * beatsPerBar * 60 / tempo, and each segment ends where the next
\* one starts, the terminal segment included.
C1_TimelineContiguous ==
    (TimelineBuilt /\ WellFormed(data)) =>
        /\ Len(time_segments) = Len(data) + 1
        /\ time_segments[1].start = R(0)
        /\ \A k \in 1..Len(time_segments) :
              time_segments[k].end = RAdd(time_segments[k].start, time_segments[k].dur)
        /\ \A k \in 1..Len(data) :
              time_segments[k].dur =
                  Norm(data[k].bars * data[k].sig[1] * 60, data[k].bpm)
        /\ \A k \in 1..(Len(time_segments) - 1) :
              time_segments[k].end = time_segments[k + 1].start

C1_Witness ==
    /\ pc = "loop"
    /\ WellFormed(data)
    /\ Len(data) = 2
    /\ data[1].bpm # data[2].bpm
    /\ data[1].bars = 2

\* C2: the timeline has exactly one terminal segment; it is the last element,
\* has no successor, carries the signature and tempo of the last descriptor
\* and lasts one bar of it whatever that descriptor's bar count.
C2_TerminalSegment ==
    TimelineBuilt =>
        LET n == Len(time_segments)
            d == data[Len(data)]
        IN  /\ n = Len(data) + 1
            /\ {k \in 1..n : IsTerminal(k)} = {n}
            /\ time_segments[n].next = None
            /\ time_segments[n].sig = d.sig
            /\ time_segments[n].bpm = d.bpm
            /\ time_segments[n].dur = Norm(d.sig[1] * 60, d.bpm)

C2_Witness ==
    /\ pc = "write"
    /\ WellFormed(data)
    /\ Len(data) = 2
    /\ data[2].bars = 2
    /\ data[1].sig # data[2].sig
    /\ data[1].bpm # data[2].bpm

\* C3: finalTime is the running total, the end of the last authored segment
\* (the start of the terminal segment), and the video lasts
\* min(finalTime, audio duration).
C3_FinalTimeIsRunningTotal ==
    /\ TimelineBuilt => final_time = time_segments[Len(time_segments)].start
    /\ pc \in {"write", "frame"} => video_duration = RMin(final_time, total_duration)

\* C4: once the driver has processed segment k, the NEXT label, the
\* transition preview and (where the variant has one) the progress indicator
\* exist for k exactly when k has a successor that has a successor; polygon,
\* signature and BPM layers exist for every processed segment.
C4_NextLayersIffTwoSuccessors ==
    TimelineBuilt =>
        \A k \in 1..Len(time_segments) :
            k < i =>
                LET wanted == k + 2 <= Len(time_segments)
                IN  /\ HasLayer(k, "next") <=> wanted
                    /\ HasLayer(k, "preview") <=> wanted
                    /\ HasLayer(k, "bar") <=> (wanted /\ variant = "pm")
                    /\ HasLayer(k, "polygon")
                    /\ HasLayer(k, "sig")
                    /\ HasLayer(k, "bpm")

C4_Witness ==
    /\ pc = "write"
    /\ variant = "pm"
    /\ Len(data) = 2
    /\ HasLayer(1, "next") /\ HasLayer(1, "bar") /\ HasLayer(1, "preview")
    /\ ~HasLayer(2, "next") /\ ~HasLayer(3, "next")
    /\ HasLayer(3, "polygon")

\* C5 as stated: a transition preview layer ends at successor.start and
\* lasts nextBeatsPerBar * 60 / currentTempo.
C5_PreviewWindowNextBeats ==
    \A j \in 1..Len(clips) :
        clips[j].layer = "preview" =>
            LET k == clips[j].seg
            IN  /\ RAdd(clips[j].start, clips[j].dur) = time_segments[k + 1].start
                /\ clips[j].dur =
                       Norm(time_segments[k + 1].sig[1] * 60, time_segments[k].bpm)

\* C5 amended: a transition preview layer ends at successor.start and lasts
\* one bar of the current segment, beatsPerBar * 60 / tempo of the current
\* segment.
C5_PreviewWindowCurrentBar ==
    \A j \in 1..Len(clips) :
        clips[j].layer = "preview" =>
            LET k == clips[j].seg
            IN  /\ RAdd(clips[j].start, clips[j].dur) = time_segments[k + 1].start
                /\ clips[j].dur =
                       Norm(time_segments[k].sig[1] * 60, time_segments[k].bpm)

C5_Witness ==
    /\ pc = "write"
    /\ WellFormed(data)
    /\ \E j \in 1..Len(clips) :
          /\ clips[j].layer = "preview"
          /\ time_segments[clips[j].seg + 1].sig # time_segments[clips[j].seg].sig

\* C6 as stated: the progress rectangle is accent exactly when
\* t > segmentDuration - 60/tempo, white otherwise.
C6_AccentInLastBeat ==
    frame.layer = "bar" =>
        /\ frame.color \in {ACCENT_COLOR, WHITE}
        /\ frame.color = ACCENT_COLOR <=>
               RLt(RSub(time_segments[frame.seg].dur, FrameBeat), frame.t)

\* C6 amended: the progress rectangle is accent exactly when
\* t > segmentDuration - beatsPerBar * 60/tempo (the last bar of the
\* segment), white otherwise.
C6_AccentInLastBar ==
    frame.layer = "bar" =>
        /\ frame.color \in {ACCENT_COLOR, WHITE}
        /\ frame.color = ACCENT_COLOR <=>
               RLt(RSub(time_segments[frame.seg].dur, FrameBar), frame.t)

C6_Witness ==
    /\ frame.layer = "bar"
    /\ frame.color = ACCENT_COLOR
    /\ RLe(frame.t, RSub(time_segments[frame.seg].dur, FrameBeat))

\* the current frame is a non-terminal polygon frame taken at the start of a
\* bar other than the segment's first
AtLaterBarStart ==
    /\ frame.layer = "polygon"
    /\ ~FrameClip.last
    /\ frame.t # R(0)
    /\ RMod(frame.t, FrameBar) = R(0)

\* C7 as stated: at the start of a later bar exactly fadeBeats slices are
\* filled, slice 0 at fade 1 and the fadeBeats - 1 slices before it at a
\* fade strictly between 0 and 1.
C7_ExactlyFadeBeatsSlices ==
    AtLaterBarStart =>
        LET n == FrameClip.n_beats
        IN  /\ Cardinality(Drawn) = fade_beats
            /\ frame.slices[0].state = "drawn"
            /\ frame.slices[0].fade = R(1)
            /\ \A j \in 1..(fade_beats - 1) :
                  LET s == frame.slices[(n - j) % n]
                  IN  s.state = "drawn" /\ RLt(R(0), s.fade) /\ RLt(s.fade, R(1))

\* C7 amended: at the start of a later bar exactly min(fadeBeats, beatsPerBar)
\* slices are filled, slice 0 at fade 1 and the slices before it
\* (beatsPerBar-1, ...) at a fade strictly between 0 and 1; every other slice
\* is unfilled.
C7_MinFadeBeatsSlices ==
    AtLaterBarStart =>
        LET n == FrameClip.n_beats
            m == IF fade_beats < n THEN fade_beats ELSE n
        IN  /\ Cardinality(Drawn) = m
            /\ frame.slices[0].state = "drawn"
            /\ frame.slices[0].fade = R(1)
            /\ frame.slices[0].color = ACCENT_COLOR
            /\ \A j \in 1..(m - 1) :
                  LET s == frame.slices[n - j]
                  IN  s.state = "drawn" /\ RLt(R(0), s.fade) /\ RLt(s.fade, R(1))
            /\ \A idx \in 1..(n - m) : frame.slices[idx].state = "unfilled"

C7_Witness ==
    /\ AtLaterBarStart
    /\ FrameClip.n_beats > fade_beats
    /\ frame.seg = 2

\* C8: a polygon layer with the terminal flag draws every slice, each in
\* black, at every t; and the driver sets the flag for the terminal segment
\* and for no other.
C8_TerminalAllBlack ==
    /\ \A j \in 1..Len(clips) :
          clips[j].layer = "polygon" =>
              (clips[j].last <=> clips[j].seg = Len(time_segments))
    /\ (frame.layer = "polygon" /\ FrameClip.last) =>
          /\ DOMAIN frame.slices = 0..(FrameClip.n_beats - 1)
          /\ \A idx \in DOMAIN frame.slices :
                /\ frame.slices[idx].state = "drawn"
                /\ frame.slices[idx].color = BLACK

C8_Witness ==
    /\ frame.layer = "polygon"
    /\ FrameClip.last
    /\ FrameClip.n_beats > fade_beats
    /\ RLe(RMul(R(fade_beats), FrameBeat), frame.t)

\* C9: a malformed description (empty map, a tempo <= 0, a bar count <= 0)
\* ends in an error before _get_segments returns a timeline and before any
\* layer is instantiated.
C9_MalformedFailsFast ==
    Malformed(data) => (~TimelineBuilt /\ clips = <<>>)

\* C10 as stated: a slice is skipped as not yet started only in the first
\* bar of the whole timeline.
C10_SkipOnlyInFirstBarOfTimeline ==
    (frame.layer = "polygon" /\ Skipped # {}) =>
        (frame.seg = 1 /\ RLt(frame.t, FrameBar))

\* C10 amended: a slice is skipped as not yet started only in the first bar
\* of a non-terminal segment (local t below one bar), never in a later bar
\* of the same segment; every non-terminal segment, not only the first,
\* starts with all slices but slice 0 skipped.
C10_SkipOnlyInFirstBarOfSegment ==
    frame.layer = "polygon" =>
        /\ Skipped # {} => (~FrameClip.last /\ RLt(frame.t, FrameBar))
        /\ (~FrameClip.last /\ frame.t = R(0)) =>
               Skipped = 1..(FrameClip.n_beats - 1)

C10_Witness ==
    /\ frame.layer = "polygon"
    /\ frame.seg = 2
    /\ ~FrameClip.last
    /\ Skipped # {}

====
